---- MODULE Spec2Model ----
(***************************************************************************)
(* Model of the korean-api-toolkit clients.                                *)
(*                                                                         *)
(*   Spec        the KIS request runtime of src/src/kis_api.py: the        *)
(*               constructor, _rate_limit, _get_access_token and           *)
(*               _make_request, driven by one caller.  Time is counted in  *)
(*               ticks, TicksPerSec ticks to the second.                   *)
(*   SpecOps     what stock_price, us_stock_price and stock_chart make of  *)
(*               the payload _make_request returned: status check, field   *)
(*               coercion, series filter.                                  *)
(*   SpecRange   stock_chart over its date arguments.                      *)
(*   SpecClients the constructors of KISAPI, KakaoAPI and TmapAPI and the  *)
(*               lookups address_to_coord, coord_to_address, geocoding.    *)
(***************************************************************************)
EXTENDS Integers, Sequences, FiniteSets, TLC

\* ------------------------------------------------------------------ bounds
TicksPerSec == 2      \* clock resolution: ticks in one second
MaxClock == 5         \* the caller idles only while clock < MaxClock
MaxRps == 2           \* largest max_requests_per_second configured
MaxCalls == 3         \* calls the caller issues on the instance
MaxDepth == 2         \* recursion depth of _make_request explored
MaxOversleep == 1     \* ticks time.sleep may sleep longer than asked
MaxLatency == 1       \* ticks a network exchange may take
MaxRaw == 3           \* longest output2 list of a chart payload
MaxCount == 3         \* largest count argument of stock_chart
MaxCandidates == 2    \* longest candidate list of a lookup response
MaxThreadCalls == 2   \* calls each thread issues on its instance

\* --------------------------------------------------------------- constants
RetryDelaySec == 2    \* time.sleep(2) before the retry
ThrottleStatus == 429 \* e.response.status_code == 429

\* -------------------------------------------------------------------- data
NONE == "None"                       \* Python's None
Truthy(x) == x \notin {NONE, ""}     \* truth value of an Optional[str]

\* What one HTTP exchange can produce.  exc is the exception requests
\* raises ("none": the call and raise_for_status() both passed); status is
\* the HTTP status of the response, 0 when there is no response at all (a
\* RequestException built without one has e.response = None).
NoResponse == 0
Exchange(exc, status, token) == [exc |-> exc, status |-> status, token |-> token]
DataExchanges ==
    { Exchange("none", 200, NONE),
      Exchange("HTTPError", ThrottleStatus, NONE),
      Exchange("HTTPError", 500, NONE),
      Exchange("Timeout", NoResponse, NONE),
      Exchange("ConnectionError", NoResponse, NONE) }
AuthExchanges ==
    { Exchange("none", 200, "tok"),     \* {"access_token": "tok"}
      Exchange("none", 200, ""),        \* {"access_token": ""}
      Exchange("none", 200, NONE),      \* no access_token key
      Exchange("HTTPError", ThrottleStatus, NONE),
      Exchange("HTTPError", 500, NONE),
      Exchange("Timeout", NoResponse, NONE),
      Exchange("ConnectionError", NoResponse, NONE) }

\* Result of a finished call, as the caller sees it.
Pending == [kind |-> "pending", value |-> NONE]
Return(v) == [kind |-> "return", value |-> v]
Raise(e) == [kind |-> "raise", value |-> e]

LogLen == MaxRps + 1
Append1(log, t) ==
    IF Len(log) < LogLen THEN Append(log, t) ELSE Append(Tail(log), t)
Min(a, b) == IF a < b THEN a ELSE b

VARIABLES
    clock,                   \* time.time(), in ticks
    kis,                     \* "none" | "ready" | "failed": the KISAPI object
    app_key, app_secret,     \* self.app_key, self.app_secret
    access_token,            \* self.access_token
    request_count,           \* self.request_count
    last_request_time,       \* self.last_request_time
    max_requests_per_second, \* self.max_requests_per_second
    pc,                      \* where the caller is inside _make_request
    op,                      \* the operation the caller runs
    depth,                   \* recursion depth of _make_request
    sent,                    \* data requests dispatched by the current call
    calls,                   \* calls issued so far
    authPosts,               \* POSTs to /oauth2/tokenP sent so far
    dispatchLog,             \* times of the last LogLen data dispatches
    burst,                   \* dispatches of the current back-to-back run
    lastFail,                \* exchange that failed the last attempt
    outcome,                 \* what the last call returned or raised
    request,                 \* operation and arguments of the call
    today,                   \* the date datetime.now() falls on
    params,                  \* params handed to _make_request
    response,                \* payload _make_request returned
    result,                  \* what the operation returned or raised
    kakao, tmap,             \* "none" | "ready" | "failed": the other clients
    api_key,                 \* KakaoAPI.api_key
    tmap_app_key,            \* TmapAPI.app_key
    contacted,               \* clients that have sent an HTTP request
    token,                   \* the local token of _make_request
    instances,               \* the KISAPI objects shared by threads
    threads                  \* the threads calling into those objects

vars == << clock, kis, app_key, app_secret, access_token, request_count,
           last_request_time, max_requests_per_second, pc, op, depth, sent,
           calls, authPosts, dispatchLog, burst, lastFail, outcome,
           request, today, params, response, result, kakao, tmap, api_key,
           tmap_app_key, contacted, token, instances, threads >>

credVars == << app_key, app_secret >>
windowVars == << request_count, last_request_time >>
logVars == << dispatchLog, burst >>
callVars == << request, today, params, response, result >>
clientVars == << kakao, tmap, api_key, tmap_app_key, contacted >>
threadVars == << instances, threads >>
opsVars == << callVars, clientVars, threadVars >>
runtimeVars == << clock, kis, app_key, app_secret, access_token,
                  request_count, last_request_time, max_requests_per_second,
                  pc, op, depth, sent, calls, authPosts, dispatchLog, burst,
                  lastFail, outcome, token, threadVars >>

NoFail == Exchange("none", 0, NONE)
Credentials == {NONE, "", "key"}     \* settings.KIS_APP_KEY / KIS_APP_SECRET
KisOps == {"stock_price", "us_stock_price", "stock_chart"}
DirectOps == {"get_access_token"}    \* api._get_access_token(), as test_kis_api does

Init ==
    /\ clock = 0
    /\ kis = "none"
    /\ app_key = NONE
    /\ app_secret = NONE
    /\ access_token = NONE
    /\ request_count = 0
    /\ last_request_time = 0
    /\ max_requests_per_second = 1
    /\ pc = "idle"
    /\ op = NONE
    /\ depth = 0
    /\ sent = 0
    /\ calls = 0
    /\ authPosts = 0
    /\ dispatchLog = << >>
    /\ burst = 0
    /\ lastFail = NoFail
    /\ outcome = Pending
    /\ request = NONE
    /\ today = 0
    /\ params = NONE
    /\ response = NONE
    /\ result = NONE
    /\ kakao = "none"
    /\ tmap = "none"
    /\ api_key = NONE
    /\ tmap_app_key = NONE
    /\ contacted = {}
    /\ token = NONE
    /\ instances = << >>
    /\ threads = << >>

\* ------------------------------------------------------- KISAPI.__init__
\* The attributes are assigned before the credential test, so they are set
\* even when the constructor raises; the object is then never bound.
\* max_requests_per_second is a plain instance attribute (15 in the source);
\* the model draws the configured ceiling from 1..MaxRps.
CredentialsPresent_keyonly(k, s) == Truthy(k)
CredentialsPresent(k, s) == ~(~Truthy(k) \/ ~Truthy(s))

KISAPI_init(k, s, rps) ==
    /\ kis = "none"
    /\ app_key' = k
    /\ app_secret' = s
    /\ access_token' = NONE
    /\ request_count' = 0
    /\ last_request_time' = clock
    /\ max_requests_per_second' = rps
    /\ IF CredentialsPresent(k, s)
          THEN kis' = "ready" /\ outcome' = Return("KISAPI")
          ELSE kis' = "failed" /\ outcome' = Raise("ValueError")
    /\ UNCHANGED << clock, pc, op, depth, sent, calls, authPosts,
                    dispatchLog, burst, lastFail, token, opsVars >>

\* The caller does nothing for one tick.
Tick ==
    /\ pc = "idle"
    /\ clock < MaxClock
    /\ clock' = clock + 1
    /\ burst' = 0
    /\ UNCHANGED << kis, app_key, app_secret, access_token, request_count,
                    last_request_time, max_requests_per_second, pc, op,
                    depth, sent, calls, authPosts, dispatchLog, lastFail,
                    outcome, token, opsVars >>

\* ------------------------------------------------------ KISAPI._rate_limit
WindowElapsed(current_time) == current_time - last_request_time >= TicksPerSec

rate_limit_noreset(over) ==
    LET current_time == clock
        reset == WindowElapsed(current_time)
        count1 == IF reset THEN 0 ELSE request_count
        last1 == IF reset THEN current_time ELSE last_request_time
        sleep_time == TicksPerSec - (current_time - last1)
        sleeps == count1 >= max_requests_per_second /\ sleep_time > 0
        wake == current_time + sleep_time + over
    IN  /\ clock' = IF sleeps THEN wake ELSE clock
        /\ last_request_time' = IF sleeps THEN wake ELSE last1
        /\ request_count' = count1 + 1
rate_limit(over) ==
    LET current_time == clock
        reset == WindowElapsed(current_time)
        count1 == IF reset THEN 0 ELSE request_count
        last1 == IF reset THEN current_time ELSE last_request_time
        sleep_time == TicksPerSec - (current_time - last1)
        sleeps == count1 >= max_requests_per_second /\ sleep_time > 0
        wake == current_time + sleep_time + over
    IN  /\ clock' = IF sleeps THEN wake ELSE clock
        /\ last_request_time' = IF sleeps THEN wake ELSE last1
        /\ request_count' = (IF sleeps THEN 0 ELSE count1) + 1

\* --------------------------------------------------- KISAPI._make_request
\* A call enters _make_request (through one of the three operations), or
\* the caller calls _get_access_token directly.
Enter(o) ==
    /\ kis = "ready"
    /\ pc = "idle"
    /\ calls < MaxCalls
    /\ calls' = calls + 1
    /\ op' = o
    /\ pc' = IF o \in DirectOps THEN "token" ELSE "rate_limit"
    /\ depth' = 0
    /\ sent' = 0
    /\ lastFail' = NoFail
    /\ outcome' = Pending
    /\ token' = NONE
    /\ UNCHANGED << clock, kis, credVars, access_token, windowVars,
                    max_requests_per_second, authPosts, logVars >>

Call(o) == Enter(o) /\ UNCHANGED opsVars

\* self._rate_limit() at the head of the try block.
RateLimit ==
    /\ pc = "rate_limit"
    /\ \E over \in 0..MaxOversleep : rate_limit(over)
    /\ pc' = "token"
    /\ UNCHANGED << kis, credVars, access_token, max_requests_per_second, op,
                    depth, sent, calls, authPosts, logVars, lastFail,
                    outcome, token, opsVars >>

\* The except clause of _make_request for a RequestException e.  Every
\* RequestException has a response attribute, None when no response came,
\* and e.response.status_code on None raises AttributeError.
OnRequestException_noretry(e) ==
    IF e.status = NoResponse THEN "AttributeError" ELSE e.exc
OnRequestException(e) ==
    IF e.status = NoResponse THEN "AttributeError"
    ELSE IF e.status = ThrottleStatus THEN "retry"
    ELSE e.exc

\* Outside _make_request nothing handles the exception.
Fail_silent(e) ==
    /\ lastFail' = e
    /\ pc' = "idle"
    /\ outcome' = Return(NONE)
Fail(e) ==
    LET h == IF op \in DirectOps THEN e.exc ELSE OnRequestException(e)
    IN  /\ lastFail' = e
        /\ IF h = "retry"
              THEN pc' = "backoff" /\ outcome' = outcome
              ELSE pc' = "idle" /\ outcome' = Raise(h)

\* ------------------------------------------------ KISAPI._get_access_token
TokenCached_never == FALSE
TokenCached == Truthy(access_token)

\* return self.access_token: to _make_request, which goes on to send, or to
\* the caller of a direct call.
Got_unbound(t) ==
    IF op \in DirectOps
       THEN pc' = "idle" /\ outcome' = Return(NONE) /\ token' = token
       ELSE pc' = "send" /\ outcome' = outcome /\ token' = NONE
Got(t) ==
    IF op \in DirectOps
       THEN pc' = "idle" /\ outcome' = Return(t) /\ token' = token
       ELSE pc' = "send" /\ outcome' = outcome /\ token' = t

\* token = self._get_access_token() inside _make_request, or the direct call.
\* answers: what the auth endpoint may answer to this POST.
get_access_token(answers) ==
    /\ pc = "token"
    /\ IF TokenCached
          THEN /\ Got(access_token)
               /\ UNCHANGED << clock, access_token, authPosts, lastFail >>
          ELSE \E r \in answers, lat \in 0..MaxLatency :
               /\ authPosts' = authPosts + 1
               /\ clock' = clock + lat
               /\ IF r.exc = "none"
                     THEN /\ access_token' = r.token
                          /\ IF Truthy(r.token)
                                THEN Got(r.token) /\ lastFail' = lastFail
                                ELSE /\ pc' = "idle"
                                     /\ lastFail' = r
                                     /\ outcome' = Raise("ValueError")
                                     /\ token' = token
                     ELSE /\ access_token' = access_token
                          /\ token' = token
                          /\ Fail(r)
    /\ UNCHANGED << kis, credVars, windowVars, max_requests_per_second, op,
                    depth, sent, calls, logVars >>

GetToken == get_access_token(AuthExchanges) /\ UNCHANGED opsVars

\* self.session.get(...) / raise_for_status() / response.json().
\* answers: what the data endpoint may answer to this request.
session_get(answers) ==
    /\ pc = "send"
    /\ sent' = sent + 1
    /\ dispatchLog' = Append1(dispatchLog, clock)
    /\ burst' = Min(burst + 1, 3)
    /\ \E r \in answers, lat \in 0..MaxLatency :
         /\ clock' = clock + lat
         /\ IF r.exc = "none"
               THEN /\ pc' = "idle"
                    /\ outcome' = Return("payload")
                    /\ lastFail' = lastFail
               ELSE Fail(r)
    /\ UNCHANGED << kis, credVars, access_token, windowVars,
                    max_requests_per_second, op, depth, calls, authPosts,
                    token >>

Send == session_get(DataExchanges) /\ UNCHANGED opsVars

\* time.sleep(2); return self._make_request(endpoint, tr_id, params, method)
Backoff_ungated ==
    /\ pc = "backoff"
    /\ depth < MaxDepth
    /\ \E over \in 0..MaxOversleep :
         clock' = clock + RetryDelaySec * TicksPerSec + over
    /\ depth' = depth + 1
    /\ pc' = "token"
    /\ UNCHANGED << kis, credVars, access_token, windowVars,
                    max_requests_per_second, op, sent, calls, authPosts,
                    logVars, lastFail, outcome, token, opsVars >>
Backoff ==
    /\ pc = "backoff"
    /\ depth < MaxDepth
    /\ \E over \in 0..MaxOversleep :
         clock' = clock + RetryDelaySec * TicksPerSec + over
    /\ depth' = depth + 1
    /\ pc' = "rate_limit"
    /\ UNCHANGED << kis, credVars, access_token, windowVars,
                    max_requests_per_second, op, sent, calls, authPosts,
                    logVars, lastFail, outcome, token, opsVars >>

Next ==
    \/ \E k \in Credentials, s \in Credentials, rps \in 1..MaxRps :
         KISAPI_init(k, s, rps)
    \/ Tick
    \/ \E o \in KisOps \cup DirectOps : Call(o)
    \/ RateLimit
    \/ GetToken
    \/ Send
    \/ Backoff

Spec == Init /\ [][Next]_vars

\* ====================================================== payload handling
\* JSON values as the operations see them.  A number travels as a decimal
\* string; n holds its value in tenths, so "0.5" is Num(5) and "70" is
\* Num(700).  Numeric results are kept in tenths as well.
Absent == [form |-> "absent", n |-> 0, s |-> ""]      \* key not in the dict
Null == [form |-> "null", n |-> 0, s |-> ""]          \* JSON null
PyZero == [form |-> "pyint", n |-> 0, s |-> ""]       \* the default 0 of .get
Inf == [form |-> "inf", n |-> 0, s |-> "inf"]         \* the string "inf"
Text(s) == [form |-> IF s = "" THEN "empty" ELSE "word", n |-> 0, s |-> s]
Num(tenths) ==
    [form |-> IF tenths % 10 = 0 THEN "int" ELSE "dec", n |-> tenths, s |-> "#"]

INF == 1000000                        \* float("inf")
\* A key of the payload that holds an object or a list: Missing when the
\* key is absent, Present(x) when it holds x.
Missing == << >>
Present(x) == << x >>
Ok(v) == [ok |-> TRUE, v |-> v]
Err(e) == [ok |-> FALSE, v |-> e]

\* d.get(k, default)
Get(d, k, default) == IF d[k].form = "absent" THEN default ELSE d[k]
\* truth value of d.get(k): None, "" and 0 are false
PyTruthy(v) == v.form \notin {"absent", "null", "empty"} /\ v # PyZero

\* float(v)
PyFloat(v) ==
    CASE v.form \in {"int", "dec", "pyint"} -> Ok(v.n)
      [] v.form = "inf" -> Ok(INF)
      [] v.form = "null" -> Err("TypeError")
      [] OTHER -> Err("ValueError")
\* int(v) of a string or an int: a string with a decimal point is refused
PyInt(v) ==
    CASE v.form \in {"int", "pyint"} -> Ok(v.n)
      [] v.form = "null" -> Err("TypeError")
      [] OTHER -> Err("ValueError")
\* int(x) of a float: truncation toward zero
IntOfFloat(x) ==
    IF x = INF THEN Err("OverflowError")
    ELSE IF x >= 0 THEN Ok((x \div 10) * 10) ELSE Ok(-(((-x) \div 10) * 10))

Coerce(conv, v) ==
    CASE conv = "int" -> PyInt(v)
      [] conv = "float" -> PyFloat(v)
      [] OTHER -> Ok(v)
DefaultOf_null(conv) == Null
DefaultOf(conv) == IF conv = "str" THEN Text("") ELSE PyZero

\* seq[:count]
PySlice_all(seq, count) == seq
PySlice(seq, count) ==
    IF count >= 0 THEN SubSeq(seq, 1, Min(count, Len(seq)))
    ELSE SubSeq(seq, 1, IF Len(seq) + count > 0 THEN Len(seq) + count ELSE 0)

\* The first failing conversion of a sequence of conversions, "none" if all
\* passed: a dict display evaluates its values in order.
FirstError(convs) ==
    LET bad == {i \in DOMAIN convs : ~convs[i].ok}
    IN  IF bad = {} THEN "none"
        ELSE convs[CHOOSE i \in bad : \A j \in bad : i <= j].v

\* response.get("rt_cd") != "0"
ProviderFailed_one(resp) == resp.rt_cd = "1"
ProviderFailed(resp) == resp.rt_cd # "0"
\* f"<prefix>{response.get('msg1', <default>)}"
ApiErrorPrefix == "API error: "
UnknownError == "unknown error"
ApiErrorMessage(resp) ==
    << ApiErrorPrefix, IF resp.msg1 = NONE THEN UnknownError ELSE resp.msg1 >>
Exception(type, msg) == [type |-> type, msg |-> msg]

\* ----------------------------------------------------- KISAPI.stock_price
StockPriceFields ==
    << [dst |-> "stock_name", src |-> "hts_kor_isnm", conv |-> "str"],
       [dst |-> "current_price", src |-> "stck_prpr", conv |-> "int"],
       [dst |-> "change_price", src |-> "prdy_vrss", conv |-> "int"],
       [dst |-> "change_rate", src |-> "prdy_ctrt", conv |-> "float"],
       [dst |-> "change_sign", src |-> "prdy_vrss_sign", conv |-> "int"],
       [dst |-> "volume", src |-> "acml_vol", conv |-> "int"],
       [dst |-> "transaction_amount", src |-> "acml_tr_pbmn", conv |-> "int"],
       [dst |-> "high_price", src |-> "stck_hgpr", conv |-> "int"],
       [dst |-> "low_price", src |-> "stck_lwpr", conv |-> "int"],
       [dst |-> "open_price", src |-> "stck_oprc", conv |-> "int"],
       [dst |-> "prev_close_price", src |-> "stck_sdpr", conv |-> "int"] >>

\* response.get("output", {})
OutputOf(resp, fields) ==
    IF resp.output = Missing
       THEN [k \in {fields[i].src : i \in DOMAIN fields} |-> Absent]
       ELSE resp.output[1]

\* The dict display of a quote: every field read with its default and
\* coerced, in order; extra carries the entries copied from the arguments.
Quote(data, fields, extra) ==
    LET convs == [i \in DOMAIN fields |->
                    Coerce(fields[i].conv,
                           Get(data, fields[i].src, DefaultOf(fields[i].conv)))]
        e == FirstError(convs)
        idx(d) == CHOOSE i \in DOMAIN fields : fields[i].dst = d
        dsts == {fields[i].dst : i \in DOMAIN fields}
    IN  IF e # "none" THEN Raise(Exception(e, << "conversion" >>))
        ELSE Return([d \in dsts \cup DOMAIN extra |->
                        IF d \in dsts THEN convs[idx(d)].v ELSE extra[d]])

stock_price_result(req, resp) ==
    IF ProviderFailed(resp)
       THEN Raise(Exception("ValueError", ApiErrorMessage(resp)))
       ELSE Quote(OutputOf(resp, StockPriceFields), StockPriceFields,
                  [symbol |-> req.symbol, market |-> req.market])

\* -------------------------------------------------- KISAPI.us_stock_price
UsStockPriceFields ==
    << [dst |-> "company_name", src |-> "name", conv |-> "str"],
       [dst |-> "current_price", src |-> "last", conv |-> "float"],
       [dst |-> "change_price", src |-> "diff", conv |-> "float"],
       [dst |-> "change_rate", src |-> "rate", conv |-> "float"],
       [dst |-> "change_sign", src |-> "sign", conv |-> "str"],
       [dst |-> "volume", src |-> "tvol", conv |-> "int"],
       [dst |-> "high_price", src |-> "high", conv |-> "float"],
       [dst |-> "low_price", src |-> "low", conv |-> "float"],
       [dst |-> "open_price", src |-> "open", conv |-> "float"],
       [dst |-> "prev_close_price", src |-> "base", conv |-> "float"] >>

\* exchange_codes.get(exchange, "NAS")
exchange_codes(exchange) ==
    CASE exchange = "NASDAQ" -> "NAS"
      [] exchange = "NYSE" -> "NYS"
      [] exchange = "AMEX" -> "AMS"
      [] OTHER -> "NAS"

us_stock_price_result(req, resp) ==
    IF ProviderFailed(resp)
       THEN Raise(Exception("ValueError", ApiErrorMessage(resp)))
       ELSE Quote(OutputOf(resp, UsStockPriceFields), UsStockPriceFields,
                  [symbol |-> req.symbol, exchange |-> req.exchange,
                   exchange_code |-> exchange_codes(req.exchange),
                   currency |-> "USD"])

\* ------------------------------------------------ dates (datetime, strftime)
\* A date is its day number counted from 1 January of EpochYear; a
\* "%Y%m%d" string is the number yyyymmdd, and a date argument left out
\* (None or "") is Omitted.
EpochYear == 1990
Omitted == 0
IsLeap(y) == (y % 4 = 0 /\ y % 100 # 0) \/ y % 400 = 0
YearLen(y) == IF IsLeap(y) THEN 366 ELSE 365
MonthLen(y, m) ==
    CASE m = 2 -> IF IsLeap(y) THEN 29 ELSE 28
      [] m \in {4, 6, 9, 11} -> 30
      [] OTHER -> 31
RECURSIVE DaysBeforeYear(_)
DaysBeforeYear(y) ==
    IF y <= EpochYear THEN 0 ELSE DaysBeforeYear(y - 1) + YearLen(y - 1)
RECURSIVE DaysBeforeMonth(_, _)
DaysBeforeMonth(y, m) ==
    IF m <= 1 THEN 0 ELSE DaysBeforeMonth(y, m - 1) + MonthLen(y, m - 1)
\* the day number of the date written yyyymmdd
DayNumber(ymd) ==
    LET y == ymd \div 10000
        m == (ymd \div 100) % 100
        d == ymd % 100
    IN  DaysBeforeYear(y) + DaysBeforeMonth(y, m) + d - 1
RECURSIVE YearAt(_, _)
YearAt(y, n) == IF n >= YearLen(y) THEN YearAt(y + 1, n - YearLen(y)) ELSE y
RECURSIVE MonthAt(_, _, _)
MonthAt(y, m, n) ==
    IF n >= MonthLen(y, m) THEN MonthAt(y, m + 1, n - MonthLen(y, m)) ELSE m
\* dt.strftime("%Y%m%d")
strftime(n) ==
    LET y == YearAt(EpochYear, n)
        n1 == n - DaysBeforeYear(y)
        m == MonthAt(y, 1, n1)
        d == n1 - DaysBeforeMonth(y, m) + 1
    IN  y * 10000 + m * 100 + d

\* days_back.get(period, 50)
days_back(period, count) ==
    CASE period = "D" -> count + 10
      [] period = "W" -> count * 7 + 10
      [] period = "M" -> count * 30 + 10
      [] period = "Y" -> count * 365 + 10
      [] OTHER -> 50

\* The default dates of stock_chart; now1 and now2 are the dates of the two
\* datetime.now() calls.
chart_end_date(req, now1) ==
    IF req.end_date = Omitted THEN strftime(now1) ELSE req.end_date
chart_start_date(req, now2) ==
    IF req.start_date = Omitted
       THEN strftime(now2 - days_back(req.period, req.count))
       ELSE req.start_date
chart_params(req, now1, now2) ==
    [FID_COND_MRKT_DIV_CODE |-> "J",
     FID_INPUT_ISCD |-> req.symbol,
     FID_INPUT_DATE_1 |-> chart_start_date(req, now2),
     FID_INPUT_DATE_2 |-> chart_end_date(req, now1),
     FID_PERIOD_DIV_CODE |-> req.period,
     FID_ORG_ADJ_PRC |-> "0"]

\* ----------------------------------------------------- KISAPI.stock_chart
ChartFields ==
    << [dst |-> "open", src |-> "stck_oprc"],
       [dst |-> "high", src |-> "stck_hgpr"],
       [dst |-> "low", src |-> "stck_lwpr"],
       [dst |-> "close", src |-> "stck_clpr"],
       [dst |-> "volume", src |-> "acml_vol"],
       [dst |-> "amount", src |-> "acml_tr_pbmn"] >>
CloseIdx == 4

\* int(float(item.get(k, 0)) if item.get(k) else 0)
ChartField(item, k) ==
    IF PyTruthy(item[k])
       THEN LET f == PyFloat(Get(item, k, PyZero))
            IN  IF f.ok THEN IntOfFloat(f.v) ELSE f
       ELSE Ok(0)
ChartConvs(item) == [i \in DOMAIN ChartFields |-> ChartField(item, ChartFields[i].src)]
data_point(item) ==
    LET c == ChartConvs(item)
    IN  [date |-> Get(item, "stck_bsop_date", Text("")),
         open |-> c[1].v, high |-> c[2].v, low |-> c[3].v, close |-> c[4].v,
         volume |-> c[5].v, amount |-> c[6].v]
\* if data_point["date"] and data_point["close"] > 0
ValidPoint_nonneg(dp) == PyTruthy(dp.date) /\ dp.close >= 0
ValidPoint(dp) == PyTruthy(dp.date) /\ dp.close > 0

\* for item in output2[:count]: ... ; ValueError and TypeError skip the item,
\* any other exception leaves the loop for the outer except clause.
RECURSIVE chart_loop(_, _)
chart_loop(items, chart_data) ==
    IF items = << >> THEN Ok(chart_data)
    ELSE LET item == Head(items)
             e == FirstError(ChartConvs(item))
         IN  IF e = "none"
                THEN chart_loop(Tail(items),
                                IF ValidPoint(data_point(item))
                                   THEN Append(chart_data, data_point(item))
                                   ELSE chart_data)
             ELSE IF e \in {"ValueError", "TypeError"}
                THEN chart_loop(Tail(items), chart_data)
             ELSE Err(e)

\* The records stock_chart returns; error is Missing where the dict has no
\* "error" key.
ChartRecord_counting(req, name, data, error) ==
    [symbol |-> req.symbol, stock_name |-> name, period |-> req.period,
     count |-> Len(data) + calls, chart_data |-> data, error |-> error]
ChartRecord(req, name, data, error) ==
    [symbol |-> req.symbol, stock_name |-> name, period |-> req.period,
     count |-> Len(data), chart_data |-> data, error |-> error]
Output1Name(resp) ==
    IF resp.output1 = Missing THEN Text("")
    ELSE Get(resp.output1[1], "hts_kor_isnm", Text(""))

stock_chart_result_late(req, resp) ==
    IF ProviderFailed(resp)
       THEN Return(ChartRecord(req, Text(""), << >>,
                               Present(ApiErrorMessage(resp))))
    ELSE IF resp.output2 = Missing \/ resp.output2 = Present(<< >>)
       THEN Return(ChartRecord(req, Output1Name(resp), << >>, Missing))
    ELSE LET r == chart_loop(resp.output2[1], << >>)
         IN  IF r.ok
                THEN Return(ChartRecord(req, Output1Name(resp),
                                        PySlice(r.v, req.count), Missing))
                ELSE Return(ChartRecord(req, Text(""), << >>,
                                        Present(<< "str", r.v >>)))
stock_chart_result(req, resp) ==
    IF ProviderFailed(resp)
       THEN Return(ChartRecord(req, Text(""), << >>,
                               Present(ApiErrorMessage(resp))))
    ELSE IF resp.output2 = Missing \/ resp.output2 = Present(<< >>)
       THEN Return(ChartRecord(req, Output1Name(resp), << >>, Missing))
    ELSE LET r == chart_loop(PySlice(resp.output2[1], req.count), << >>)
         IN  IF r.ok
                THEN Return(ChartRecord(req, Output1Name(resp), r.v, Missing))
                ELSE Return(ChartRecord(req, Text(""), << >>,
                                        Present(<< "str", r.v >>)))

\* ------------------------------------------------------ payloads explored
SeqsUpTo(S, n) == UNION {[1..k -> S] : k \in 0..n}
SrcOf(fields) == {fields[i].src : i \in DOMAIN fields}
ConvOf(fields, k) == fields[CHOOSE i \in DOMAIN fields : fields[i].src = k].conv

\* A well-formed output object, and the same with one field replaced.
GoodQuote(fields) ==
    [k \in SrcOf(fields) |->
        CASE ConvOf(fields, k) = "str" -> Text("name")
          [] ConvOf(fields, k) = "float" -> Num(15)
          [] OTHER -> Num(700)]
OddValues == {Absent, Null, Text(""), Text("abc"), Num(705), Num(0), Inf}
QuoteObjects(fields) ==
    {GoodQuote(fields)}
    \cup {[GoodQuote(fields) EXCEPT ![k] = v] : k \in SrcOf(fields), v \in OddValues}

Payload(rt_cd, msg1, output, output1, output2) ==
    [rt_cd |-> rt_cd, msg1 |-> msg1, output |-> output, output1 |-> output1,
     output2 |-> output2]
Messages == {"invalid symbol", NONE}
FailedPayloads(outputs) ==
    {Payload(rc, m, o, Missing, Missing) :
        rc \in {"1", NONE}, m \in Messages, o \in outputs}
QuotePayloads(fields) ==
    {Payload("0", NONE, o, Missing, Missing) :
        o \in {Present(q) : q \in QuoteObjects(fields)} \cup {Missing}}
    \cup FailedPayloads({Missing, Present(GoodQuote(fields))})

GoodItem ==
    [k \in SrcOf(ChartFields) \cup {"stck_bsop_date"} |->
        IF k = "stck_bsop_date" THEN Text("20240902") ELSE Num(700)]
ChartItems ==
    { GoodItem,
      [GoodItem EXCEPT !["stck_bsop_date"] = Text("20240830"),
                       !["stck_clpr"] = Num(710)],
      [GoodItem EXCEPT !["stck_bsop_date"] = Text("")],
      [GoodItem EXCEPT !["stck_bsop_date"] = Absent],
      [GoodItem EXCEPT !["stck_clpr"] = Num(0)],
      [GoodItem EXCEPT !["stck_clpr"] = Absent],
      [GoodItem EXCEPT !["stck_clpr"] = Text("")],
      [GoodItem EXCEPT !["stck_clpr"] = Num(5)],
      [GoodItem EXCEPT !["stck_clpr"] = Num(-700)],
      [GoodItem EXCEPT !["stck_clpr"] = Text("abc")],
      [GoodItem EXCEPT !["acml_vol"] = Text("abc")],
      [GoodItem EXCEPT !["acml_vol"] = Null],
      [GoodItem EXCEPT !["stck_oprc"] = Inf] }
Output1s == {Missing, Present([hts_kor_isnm |-> Text("name")])}
ChartPayloads ==
    {Payload("0", NONE, Missing, o1, o2) :
        o1 \in Output1s,
        o2 \in {Present(l) : l \in SeqsUpTo(ChartItems, MaxRaw)} \cup {Missing}}
    \cup {Payload(rc, m, Missing, Missing, o2) :
            rc \in {"1", NONE}, m \in Messages,
            o2 \in {Missing, Present(<< GoodItem >>)}}

Request(o, exchange, period, count, start_date, end_date) ==
    [op |-> o, symbol |-> "005930", market |-> "KOSPI", exchange |-> exchange,
     period |-> period, count |-> count, start_date |-> start_date,
     end_date |-> end_date]
\* The chart calls of SpecOps carry both dates, as test_kis_api does.
Requests ==
    {Request("stock_price", NONE, NONE, 0, Omitted, Omitted)}
    \cup {Request("us_stock_price", x, NONE, 0, Omitted, Omitted) :
            x \in {"NASDAQ", "NYSE", "AMEX", "LSE"}}
    \cup {Request("stock_chart", NONE, "D", c, 20240901, 20240920) :
            c \in -1..MaxCount}
PayloadsFor(o) ==
    CASE o = "stock_price" -> QuotePayloads(StockPriceFields)
      [] o = "us_stock_price" -> QuotePayloads(UsStockPriceFields)
      [] OTHER -> ChartPayloads

\* A constructed instance whose _make_request has just returned response.
Constructed ==
    /\ clock = 0
    /\ kis = "ready"
    /\ app_key = "key"
    /\ app_secret = "key"
    /\ access_token = "tok"
    /\ request_count = 1
    /\ last_request_time = 0
    /\ max_requests_per_second = 1
    /\ pc = "idle"
    /\ op = NONE
    /\ depth = 0
    /\ sent = 1
    /\ calls = 1
    /\ authPosts = 1
    /\ dispatchLog = << 0 >>
    /\ burst = 1
    /\ lastFail = NoFail
    /\ outcome = Return("payload")
    /\ kakao = "none"
    /\ tmap = "none"
    /\ api_key = NONE
    /\ tmap_app_key = NONE
    /\ contacted = {}
    /\ token = "tok"
    /\ instances = << >>
    /\ threads = << >>

InitOps ==
    /\ Constructed
    /\ request \in Requests
    /\ today = DayNumber(20240920)
    /\ params = NONE
    /\ response \in PayloadsFor(request.op)
    /\ result = Pending

stock_price ==
    /\ request.op = "stock_price"
    /\ result.kind = "pending"
    /\ params' = [fid_cond_mrkt_div_code |-> "J",
                  fid_input_iscd |-> request.symbol]
    /\ result' = stock_price_result(request, response)
    /\ UNCHANGED << runtimeVars, clientVars, request, today, response >>

us_stock_price ==
    /\ request.op = "us_stock_price"
    /\ result.kind = "pending"
    /\ params' = [AUTH |-> "", EXCD |-> exchange_codes(request.exchange),
                  SYMB |-> request.symbol]
    /\ result' = us_stock_price_result(request, response)
    /\ UNCHANGED << runtimeVars, clientVars, request, today, response >>

\* Midnight may pass between the two datetime.now() calls.
stock_chart ==
    /\ request.op = "stock_chart"
    /\ result.kind = "pending"
    /\ \E passed \in 0..1 :
         /\ today' = today + passed
         /\ params' = chart_params(request, today, today + passed)
    /\ result' = stock_chart_result(request, response)
    /\ UNCHANGED << runtimeVars, clientVars, request, response >>

NextOps == stock_price \/ us_stock_price \/ stock_chart

SpecOps == InitOps /\ [][NextOps]_vars

\* SpecRange: stock_chart over the date arguments, the payload being one
\* of a few.
Periods == {"D", "W", "M", "Y", "X"}
Counts == (0..MaxCount) \cup {30}
Todays == {DayNumber(20240229), DayNumber(20240920), DayNumber(20241231)}
RangeRequests ==
    {Request("stock_chart", NONE, p, c, sd, ed) :
        p \in Periods, c \in Counts, sd \in {Omitted, 20240901},
        ed \in {Omitted, 20240920}}
RangePayloads ==
    {Payload("0", NONE, Missing, Missing, Present(<< GoodItem >>)),
     Payload("1", "invalid symbol", Missing, Missing, Missing)}

InitRange ==
    /\ Constructed
    /\ request \in RangeRequests
    /\ today \in Todays
    /\ params = NONE
    /\ response \in RangePayloads
    /\ result = Pending

NextRange == stock_chart

SpecRange == InitRange /\ [][NextRange]_vars

\* ============================================ stock_price, end to end
\* SpecRetry: stock_price calls on one instance from the constructor to the
\* returned record, against a transport that answers the first token POST
\* with HTTP 429 and everything after it with success.
MockAuth ==
    IF authPosts = 0
       THEN {Exchange("HTTPError", ThrottleStatus, NONE)}
       ELSE {Exchange("none", 200, "tok")}
MockData == {Exchange("none", 200, NONE)}
MockPayload ==
    Payload("0", NONE, Present(GoodQuote(StockPriceFields)), Missing, Missing)

\* What stock_price makes of _make_request: the record built from the
\* payload, or the exception, which it logs and raises again.
stock_price_outcome(req, out, resp) ==
    CASE out.kind = "return" -> stock_price_result(req, resp)
      [] out.kind = "raise" -> Raise(Exception(out.value, << "transport" >>))
      [] OTHER -> Pending

RetryCall ==
    /\ Enter("stock_price")
    /\ request' = Request("stock_price", NONE, NONE, 0, Omitted, Omitted)
    /\ params' = [fid_cond_mrkt_div_code |-> "J",
                  fid_input_iscd |-> request'.symbol]
    /\ response' = NONE
    /\ result' = Pending
    /\ UNCHANGED << today, clientVars, threadVars >>

RetryToken ==
    /\ get_access_token(MockAuth)
    /\ result' = stock_price_outcome(request, outcome', response)
    /\ UNCHANGED << request, today, params, response, clientVars,
                    threadVars >>

RetrySend ==
    /\ session_get(MockData)
    /\ response' = IF outcome'.kind = "return" THEN MockPayload ELSE response
    /\ result' = stock_price_outcome(request, outcome', response')
    /\ UNCHANGED << request, today, params, clientVars, threadVars >>

NextRetry ==
    \/ \E rps \in 1..MaxRps : KISAPI_init("key", "key", rps)
    \/ Tick
    \/ RetryCall
    \/ RateLimit
    \/ RetryToken
    \/ RetrySend
    \/ Backoff

SpecRetry == Init /\ [][NextRetry]_vars

\* ============================================ the operations, end to end
\* SpecFlow: stock_price, us_stock_price and stock_chart from the call to
\* the value handed back, over every answer of the auth and data endpoints
\* and a few payloads.
us_stock_price_outcome(req, out, resp) ==
    CASE out.kind = "return" -> us_stock_price_result(req, resp)
      [] out.kind = "raise" -> Raise(Exception(out.value, << "transport" >>))
      [] OTHER -> Pending
\* except Exception as e: return {..., "count": 0, "chart_data": [],
\* "error": str(e)}
stock_chart_outcome_raising(req, out, resp) ==
    CASE out.kind = "return" -> stock_chart_result(req, resp)
      [] out.kind = "raise" -> Raise(Exception(out.value, << "transport" >>))
      [] OTHER -> Pending
stock_chart_outcome(req, out, resp) ==
    CASE out.kind = "return" -> stock_chart_result(req, resp)
      [] out.kind = "raise" ->
           Return(ChartRecord(req, Text(""), << >>,
                              Present(<< "str", out.value >>)))
      [] OTHER -> Pending
operation_outcome(req, out, resp) ==
    CASE req.op = "stock_price" -> stock_price_outcome(req, out, resp)
      [] req.op = "us_stock_price" -> us_stock_price_outcome(req, out, resp)
      [] OTHER -> stock_chart_outcome(req, out, resp)

FlowRequests ==
    { Request("stock_price", NONE, NONE, 0, Omitted, Omitted),
      Request("us_stock_price", "NASDAQ", NONE, 0, Omitted, Omitted),
      Request("stock_chart", NONE, "D", MaxCount, 20240901, 20240920) }
FlowQuotes(fields) ==
    { Payload("0", NONE, Present(GoodQuote(fields)), Missing, Missing),
      Payload("0", NONE, Missing, Missing, Missing),
      Payload("1", "invalid symbol", Missing, Missing, Missing) }
    \cup { Payload("0", NONE,
                    Present([GoodQuote(fields) EXCEPT ![fields[CloseIdx].src]
                                                       = Text("abc")]),
                    Missing, Missing) }
FlowCharts ==
    { Payload("0", NONE, Missing, Missing, Present(<< GoodItem >>)),
      Payload("0", NONE, Missing, Missing,
              Present(<< [GoodItem EXCEPT !["acml_vol"] = Text("abc")],
                         GoodItem >>)),
      Payload("0", NONE, Missing, Missing,
              Present(<< GoodItem, [GoodItem EXCEPT !["stck_oprc"] = Inf] >>)),
      Payload("0", NONE, Missing, Missing, Missing),
      Payload("1", "invalid symbol", Missing, Missing, Missing) }
FlowPayloads(o) ==
    CASE o = "stock_price" -> FlowQuotes(StockPriceFields)
      [] o = "us_stock_price" -> FlowQuotes(UsStockPriceFields)
      [] OTHER -> FlowCharts
ParamsOf(req, now) ==
    CASE req.op = "stock_price" ->
           [fid_cond_mrkt_div_code |-> "J", fid_input_iscd |-> req.symbol]
      [] req.op = "us_stock_price" ->
           [AUTH |-> "", EXCD |-> exchange_codes(req.exchange),
            SYMB |-> req.symbol]
      [] OTHER -> chart_params(req, now, now)

FlowCall ==
    \E req \in FlowRequests :
       /\ Enter(req.op)
       /\ request' = req
       /\ params' = ParamsOf(req, today)
       /\ response' = NONE
       /\ result' = Pending
       /\ UNCHANGED << today, clientVars, threadVars >>

FlowToken ==
    /\ get_access_token(AuthExchanges)
    /\ result' = operation_outcome(request, outcome', response)
    /\ UNCHANGED << request, today, params, response, clientVars,
                    threadVars >>

FlowSend ==
    /\ session_get(DataExchanges)
    /\ IF outcome'.kind = "return"
          THEN \E p \in FlowPayloads(request.op) : response' = p
          ELSE response' = response
    /\ result' = operation_outcome(request, outcome', response')
    /\ UNCHANGED << request, today, params, clientVars, threadVars >>

NextFlow ==
    \/ \E rps \in 1..MaxRps : KISAPI_init("key", "key", rps)
    \/ FlowCall
    \/ RateLimit
    \/ FlowToken
    \/ FlowSend
    \/ Backoff

SpecFlow == Init /\ [][NextFlow]_vars

\* ================================================== normalization, twice
\* SpecTwice: an operation has normalized the payload it received; another
\* operation of the instance runs (stock_search, here only for what it does
\* to the instance); the first operation is called again and receives the
\* same payload.
OtherOp == "stock_search"

InitTwice ==
    /\ Constructed
    /\ request \in FlowRequests
    /\ today = DayNumber(20240920)
    /\ params = NONE
    /\ response \in FlowPayloads(request.op)
    /\ result = Pending

\* A whole successful call: _rate_limit, the cached token, one dispatch.
WholeCall(o) ==
    /\ pc = "idle"
    /\ calls < MaxCalls
    /\ \E over \in 0..MaxOversleep : rate_limit(over)
    /\ calls' = calls + 1
    /\ op' = o
    /\ dispatchLog' = Append1(dispatchLog, clock')
    /\ burst' = Min(burst + 1, 3)
    /\ UNCHANGED << kis, credVars, access_token, max_requests_per_second,
                    pc, depth, sent, authPosts, lastFail, outcome, token,
                    clientVars, threadVars >>

stock_search ==
    /\ result.kind # "pending"
    /\ op # OtherOp
    /\ WholeCall(OtherOp)
    /\ UNCHANGED callVars

called_again ==
    /\ result.kind # "pending"
    /\ op = OtherOp
    /\ WholeCall(request.op)
    /\ params' = ParamsOf(request, today)
    /\ result' = operation_outcome(request, outcome, response)
    /\ UNCHANGED << request, today, response >>

NextTwice ==
    \/ Tick
    \/ stock_price
    \/ us_stock_price
    \/ stock_chart
    \/ stock_search
    \/ called_again

SpecTwice == InitTwice /\ [][NextTwice]_vars

\* ===================================================== _rate_limit alone
\* SpecWindow: one call of _rate_limit from any window state.  time.time()
\* is the wall clock: it may have been set back since last_request_time
\* was taken, so the two are drawn independently.
InitWindow ==
    /\ clock \in 0..MaxClock
    /\ kis = "ready"
    /\ app_key = "key"
    /\ app_secret = "key"
    /\ access_token = NONE
    /\ max_requests_per_second \in 1..MaxRps
    /\ request_count \in 0..max_requests_per_second
    /\ last_request_time \in 0..MaxClock
    /\ pc = "rate_limit"
    /\ op = "stock_price"
    /\ depth = 0
    /\ sent = 0
    /\ calls = 1
    /\ authPosts = 0
    /\ dispatchLog = << >>
    /\ burst = 0
    /\ lastFail = NoFail
    /\ outcome = Pending
    /\ request = NONE
    /\ today = 0
    /\ params = NONE
    /\ response = NONE
    /\ result = NONE
    /\ kakao = "none"
    /\ tmap = "none"
    /\ api_key = NONE
    /\ tmap_app_key = NONE
    /\ contacted = {}
    /\ token = NONE
    /\ instances = << >>
    /\ threads = << >>

NextWindow == RateLimit

SpecWindow == InitWindow /\ [][NextWindow]_vars

\* ================================================== threads and instances
\* SpecThreads: two threads calling _make_request, on the same KISAPI
\* object or on two different ones.  The source takes no lock, so a thread
\* can be preempted wherever it makes a call (time.time, time.sleep, logger,
\* requests); each action below runs from one such point to the next.
\* The objects are in instances, the threads' frames in threads; posts and
\* passed are bookkeeping: the token POSTs sent for the object, and the
\* requests let through since last_request_time was last assigned.
Threads == {"t1", "t2"}
Insts == {"a", "b"}
Tokens == {"tok", "tok2"}            \* access_token values the endpoint issues
Replies429 == {"ok", "throttled", "failed"}

Instance(rps) ==
    [access_token |-> NONE, request_count |-> 0, last_request_time |-> 0,
     max_requests_per_second |-> rps, posts |-> 0, passed |-> 0]
Frame(self) ==
    [self |-> self, pc |-> "idle", current_time |-> 0, wake |-> 0,
     token |-> NONE, calls |-> 0, depth |-> 0]

\* The objects an assignment to an attribute of self writes: the attributes
\* are set on the instance in __init__, none is a class attribute.
Written_class(self) == Insts
Written(self) == {self}
Store(self, new) ==
    [j \in Insts |-> IF j \in Written(self) THEN new ELSE instances[j]]
Move(t, frame) == [threads EXCEPT ![t] = frame]

InitThreads ==
    /\ clock = 0
    /\ kis = "ready"
    /\ app_key = "key"
    /\ app_secret = "key"
    /\ access_token = NONE
    /\ request_count = 0
    /\ last_request_time = 0
    /\ max_requests_per_second = 1
    /\ pc = "idle"
    /\ op = NONE
    /\ depth = 0
    /\ sent = 0
    /\ calls = 0
    /\ authPosts = 0
    /\ dispatchLog = << >>
    /\ burst = 0
    /\ lastFail = NoFail
    /\ outcome = Pending
    /\ request = NONE
    /\ today = 0
    /\ params = NONE
    /\ response = NONE
    /\ result = NONE
    /\ kakao = "none"
    /\ tmap = "none"
    /\ api_key = NONE
    /\ tmap_app_key = NONE
    /\ contacted = {}
    /\ token = NONE
    /\ \E rps \in 1..MaxRps : instances = [i \in Insts |-> Instance(rps)]
    /\ \E i \in Insts : threads = [t \in Threads |->
                                      IF t = "t1" THEN Frame("a") ELSE Frame(i)]

scalarVars == << kis, app_key, app_secret, access_token, request_count,
                last_request_time, max_requests_per_second, pc, op, depth,
                sent, calls, authPosts, dispatchLog, burst, lastFail,
                outcome, token, callVars, clientVars >>

\* The clock advances while the threads run or sleep.
Elapse ==
    /\ clock < MaxClock
    /\ clock' = clock + 1
    /\ UNCHANGED << scalarVars, threadVars >>

\* self._make_request(...), called by thread t.
thread_call(t) ==
    /\ threads[t].pc = "idle"
    /\ threads[t].calls < MaxThreadCalls
    /\ threads' = Move(t, [threads[t] EXCEPT !.pc = "rl_time",
                                             !.calls = @ + 1,
                                             !.depth = 0,
                                             !.token = NONE])
    /\ UNCHANGED << clock, scalarVars, instances >>

\* current_time = time.time()
thread_time(t) ==
    /\ threads[t].pc = "rl_time"
    /\ threads' = Move(t, [threads[t] EXCEPT !.pc = "rl_check",
                                             !.current_time = clock])
    /\ UNCHANGED << clock, scalarVars, instances >>

\* The rest of _rate_limit up to time.sleep, or to its end when it does not
\* sleep.
thread_check(t) ==
    LET f == threads[t]
        o == instances[f.self]
        reset == f.current_time - o.last_request_time >= TicksPerSec
        count1 == IF reset THEN 0 ELSE o.request_count
        last1 == IF reset THEN f.current_time ELSE o.last_request_time
        passed1 == IF reset THEN 0 ELSE o.passed
        sleep_time == TicksPerSec - (f.current_time - last1)
        sleeps == count1 >= o.max_requests_per_second /\ sleep_time > 0
        o1 == [o EXCEPT !.request_count = count1,
                        !.last_request_time = last1, !.passed = passed1]
    IN  /\ f.pc = "rl_check"
        /\ IF sleeps
              THEN /\ instances' = Store(f.self, o1)
                   /\ threads' = Move(t, [f EXCEPT !.pc = "rl_sleep",
                                                   !.current_time = 0,
                                                   !.wake = clock + sleep_time])
              ELSE /\ instances' = Store(f.self,
                                         [o1 EXCEPT !.request_count = @ + 1,
                                                    !.passed = @ + 1])
                   /\ threads' = Move(t, [f EXCEPT !.pc = "token",
                                                   !.current_time = 0])
        /\ UNCHANGED << clock, scalarVars >>

\* time.sleep(sleep_time) returns; self.request_count = 0; time.time()
thread_wake(t) ==
    LET f == threads[t]
        o == instances[f.self]
    IN  /\ f.pc = "rl_sleep"
        /\ clock >= f.wake
        /\ instances' = Store(f.self, [o EXCEPT !.request_count = 0])
        /\ threads' = Move(t, [f EXCEPT !.pc = "rl_wake", !.wake = 0,
                                        !.current_time = clock])
        /\ UNCHANGED << clock, scalarVars >>

\* self.last_request_time = <that time>; self.request_count += 1
thread_count(t) ==
    LET f == threads[t]
        o == instances[f.self]
    IN  /\ f.pc = "rl_wake"
        /\ instances' = Store(f.self,
                              [o EXCEPT !.last_request_time = f.current_time,
                                        !.request_count = @ + 1,
                                        !.passed = 1])
        /\ threads' = Move(t, [f EXCEPT !.pc = "token", !.current_time = 0])
        /\ UNCHANGED << clock, scalarVars >>

\* _get_access_token up to requests.post: the cached token, or the POST.
thread_token(t) ==
    LET f == threads[t]
        o == instances[f.self]
    IN  /\ f.pc = "token"
        /\ IF Truthy(o.access_token)
              THEN /\ threads' = Move(t, [f EXCEPT !.pc = "send",
                                                   !.token = o.access_token])
                   /\ instances' = instances
              ELSE /\ threads' = Move(t, [f EXCEPT !.pc = "auth_wait"])
                   /\ instances' = Store(f.self, [o EXCEPT !.posts = @ + 1])
        /\ UNCHANGED << clock, scalarVars >>

\* The token answer: self.access_token = token_data.get("access_token")
thread_issued(t) ==
    LET f == threads[t]
        o == instances[f.self]
    IN  /\ f.pc = "auth_wait"
        /\ \E tok \in Tokens :
             instances' = Store(f.self, [o EXCEPT !.access_token = tok])
        /\ threads' = Move(t, [f EXCEPT !.pc = "auth_return"])
        /\ UNCHANGED << clock, scalarVars >>

\* return self.access_token, after logger.success
thread_return(t) ==
    LET f == threads[t]
        o == instances[f.self]
    IN  /\ f.pc = "auth_return"
        /\ threads' = Move(t, [f EXCEPT !.pc = "send",
                                        !.token = o.access_token])
        /\ UNCHANGED << clock, scalarVars, instances >>

\* session.get with the Authorization header built from token, and what
\* _make_request does with the answer.
thread_send(t) ==
    LET f == threads[t]
    IN  /\ f.pc = "send"
        /\ \E r \in Replies429 :
             CASE r = "throttled" ->
                    /\ f.depth < MaxDepth
                    /\ threads' = Move(t, [f EXCEPT !.pc = "backoff",
                          !.wake = clock + RetryDelaySec * TicksPerSec])
               [] OTHER -> threads' = Move(t, [f EXCEPT !.pc = "idle"])
        /\ UNCHANGED << clock, scalarVars, instances >>

\* time.sleep(2) returns; return self._make_request(...)
thread_retry(t) ==
    LET f == threads[t]
    IN  /\ f.pc = "backoff"
        /\ clock >= f.wake
        /\ threads' = Move(t, [f EXCEPT !.pc = "rl_time", !.wake = 0,
                                        !.depth = @ + 1])
        /\ UNCHANGED << clock, scalarVars, instances >>

NextThreads ==
    \/ Elapse
    \/ \E t \in Threads : thread_call(t)
    \/ \E t \in Threads : thread_time(t)
    \/ \E t \in Threads : thread_check(t)
    \/ \E t \in Threads : thread_wake(t)
    \/ \E t \in Threads : thread_count(t)
    \/ \E t \in Threads : thread_token(t)
    \/ \E t \in Threads : thread_issued(t)
    \/ \E t \in Threads : thread_return(t)
    \/ \E t \in Threads : thread_send(t)
    \/ \E t \in Threads : thread_retry(t)

SpecThreads == InitThreads /\ [][NextThreads]_vars

\* =========================================== KakaoAPI and TmapAPI lookups
\* An address object of a Kakao document: JSON null, or the fields f.
SubKeys == {"address_name", "building_name", "zone_no", "region_1depth_name",
            "region_2depth_name", "region_3depth_name"}
Sub(name) ==
    [isnull |-> FALSE,
     f |-> [k \in SubKeys |-> IF k = "address_name" THEN Text(name) ELSE Text(k)]]
NullSub == [isnull |-> TRUE, f |-> [k \in SubKeys |-> Absent]]

\* data.get(k, {}).get(field, "")
SubGet(data, k, field) ==
    IF data[k] = Missing THEN Ok(Text(""))
    ELSE IF data[k][1].isnull THEN Err("AttributeError")
    ELSE Ok(Get(data[k][1].f, field, Text("")))

\* response["documents"][0]
FirstCandidate_last(list) == list[Len(list)]
FirstCandidate(list) == list[1]

\* What the session.get of a lookup produced: the exception raised, if any,
\* and the body of the response.
Reply(exc, body) == [exc |-> exc, body |-> body]
NotFound(what) == Raise(Exception("ValueError", << "not found", what >>))
Transport(reply) == Raise(Exception(reply.exc, << "transport" >>))
Built(convs, record) ==
    IF FirstError(convs) # "none"
       THEN Raise(Exception(FirstError(convs), << "conversion" >>))
       ELSE Return(record)

\* KakaoAPI.address_to_coord
address_to_coord_result(req, reply) ==
    IF reply.exc # "none" THEN Transport(reply)
    ELSE IF reply.body.documents = Missing \/ reply.body.documents = Present(<< >>)
       THEN NotFound(req.address)
    ELSE LET data == FirstCandidate(reply.body.documents[1])
             convs == << SubGet(data, "road_address", "address_name"),
                         SubGet(data, "address", "address_name"),
                         PyFloat(Get(data, "y", PyZero)),
                         PyFloat(Get(data, "x", PyZero)),
                         Ok(Get(data, "address_type", Text(""))) >>
         IN  Built(convs,
                   [address |-> req.address,
                    road_address |-> convs[1].v,
                    jibun_address |-> convs[2].v,
                    latitude |-> convs[3].v,
                    longitude |-> convs[4].v,
                    address_type |-> convs[5].v])

\* KakaoAPI.coord_to_address
coord_to_address_result(req, reply) ==
    IF reply.exc # "none" THEN Transport(reply)
    ELSE IF reply.body.documents = Missing \/ reply.body.documents = Present(<< >>)
       THEN NotFound(<< req.latitude, req.longitude >>)
    ELSE LET data == FirstCandidate(reply.body.documents[1])
             convs == << SubGet(data, "road_address", "address_name"),
                         SubGet(data, "address", "address_name"),
                         SubGet(data, "road_address", "building_name"),
                         SubGet(data, "address", "region_1depth_name"),
                         SubGet(data, "address", "region_2depth_name"),
                         SubGet(data, "address", "region_3depth_name"),
                         SubGet(data, "road_address", "zone_no") >>
         IN  Built(convs,
                   [latitude |-> req.latitude,
                    longitude |-> req.longitude,
                    road_address |-> convs[1].v,
                    jibun_address |-> convs[2].v,
                    building_name |-> convs[3].v,
                    region_1depth |-> convs[4].v,
                    region_2depth |-> convs[5].v,
                    region_3depth |-> convs[6].v,
                    zone_no |-> convs[7].v])

\* TmapAPI.geocoding
TmapStrings ==
    << "addressType", "city_do", "gu_gun", "eup_myun", "adminDong",
       "adminDongCode", "legalDong", "legalDongCode", "ri", "bunji",
       "roadName", "bldNo1", "bldNo2", "buildingName", "mappingDistance",
       "roadCode" >>
GeocodingFields ==
    [i \in DOMAIN TmapStrings |->
        [dst |-> TmapStrings[i], src |-> TmapStrings[i], conv |-> "str"]]
    \o << [dst |-> "lon", src |-> "lon", conv |-> "float"],
          [dst |-> "lat", src |-> "lat", conv |-> "float"] >>

\* coord_info.get("coordinate", []) of response.get("coordinateInfo", {}):
\* a list of candidates, or a single object (islist FALSE, one item).
CoordinateOf(body) ==
    IF body.coordinateInfo = Missing THEN [islist |-> TRUE, items |-> << >>]
    ELSE IF body.coordinateInfo[1].coordinate = Missing
       THEN [islist |-> TRUE, items |-> << >>]
    ELSE body.coordinateInfo[1].coordinate[1]

geocoding_result(req, reply) ==
    IF reply.exc # "none" THEN Transport(reply)
    ELSE LET coordinate == CoordinateOf(reply.body)
         IN  IF coordinate.items = << >> THEN NotFound(req.full_addr)
             ELSE Quote(IF coordinate.islist
                           THEN FirstCandidate(coordinate.items)
                           ELSE coordinate.items[1],
                        GeocodingFields, [fullAddr |-> req.full_addr])

\* ------------------------------------------------------ replies explored
KakaoGood(x, y, road, jibun) ==
    [x |-> x, y |-> y, address_type |-> Text("ROAD_ADDR"),
     road_address |-> road, address |-> jibun]
KakaoDocuments ==
    { KakaoGood(Num(1270), Num(375), Present(Sub("road A")), Present(Sub("jibun A"))),
      KakaoGood(Num(1290), Num(351), Present(Sub("road B")), Present(Sub("jibun B"))),
      KakaoGood(Num(1270), Num(375), Missing, Present(Sub("jibun A"))),
      KakaoGood(Num(1270), Num(375), Present(NullSub), Present(Sub("jibun A"))),
      KakaoGood(Absent, Absent, Present(Sub("road A")), Missing),
      KakaoGood(Text("abc"), Num(375), Present(Sub("road A")), Present(Sub("jibun A"))) }
KakaoBodies ==
    {[documents |-> d] :
        d \in {Present(l) : l \in SeqsUpTo(KakaoDocuments, MaxCandidates)}
              \cup {Missing}}
TmapCoordinates ==
    { GoodQuote(GeocodingFields),
      [GoodQuote(GeocodingFields) EXCEPT !["lon"] = Num(1290), !["city_do"] = Text("Busan")],
      [GoodQuote(GeocodingFields) EXCEPT !["lon"] = Absent, !["lat"] = Absent],
      [GoodQuote(GeocodingFields) EXCEPT !["lon"] = Text("")] }
TmapBodies ==
    {[coordinateInfo |-> Missing], [coordinateInfo |-> Present([coordinate |-> Missing])]}
    \cup {[coordinateInfo |->
             Present([coordinate |-> Present([islist |-> TRUE, items |-> l])])] :
            l \in SeqsUpTo(TmapCoordinates, MaxCandidates)}
    \cup {[coordinateInfo |->
             Present([coordinate |-> Present([islist |-> FALSE, items |-> << c >>])])] :
            c \in TmapCoordinates}
Replies(bodies, nobody) ==
    {Reply("none", b) : b \in bodies}
    \cup {Reply(e, nobody) : e \in {"HTTPError", "Timeout"}}

\* ----------------------------------------------------------- constructors
KakaoAPI_init(k) ==
    /\ kakao = "none"
    /\ api_key' = k
    /\ kakao' = IF Truthy(k) THEN "ready" ELSE "failed"
    /\ UNCHANGED << runtimeVars, callVars, tmap, tmap_app_key, contacted >>

TmapAPI_init(k) ==
    /\ tmap = "none"
    /\ tmap_app_key' = k
    /\ tmap' = IF Truthy(k) THEN "ready" ELSE "failed"
    /\ UNCHANGED << runtimeVars, callVars, kakao, api_key, contacted >>

Lookup(client, req, prm, reply, res) ==
    /\ request' = req
    /\ params' = prm
    /\ response' = reply
    /\ result' = res
    /\ contacted' = contacted \cup {client}
    /\ UNCHANGED << runtimeVars, today, kakao, tmap, api_key, tmap_app_key >>

address_to_coord ==
    /\ kakao = "ready"
    /\ \E reply \in Replies(KakaoBodies, [documents |-> Missing]) :
         LET req == [op |-> "address_to_coord", address |-> "Seoul"]
         IN  Lookup("kakao", req, [query |-> req.address], reply,
                    address_to_coord_result(req, reply))

coord_to_address ==
    /\ kakao = "ready"
    /\ \E reply \in Replies(KakaoBodies, [documents |-> Missing]) :
         LET req == [op |-> "coord_to_address", latitude |-> 375,
                     longitude |-> 1270]
         IN  Lookup("kakao", req, [x |-> req.longitude, y |-> req.latitude],
                    reply, coord_to_address_result(req, reply))

geocoding ==
    /\ tmap = "ready"
    /\ \E reply \in Replies(TmapBodies, [coordinateInfo |-> Missing]) :
         LET req == [op |-> "geocoding", full_addr |-> "Seoul",
                     coord_type |-> "WGS84GEO"]
         IN  Lookup("tmap", req,
                    [version |-> 1, fullAddr |-> req.full_addr,
                     coordType |-> req.coord_type],
                    reply, geocoding_result(req, reply))

NextClients ==
    \/ \E k \in Credentials, s \in Credentials, rps \in 1..MaxRps :
         KISAPI_init(k, s, rps)
    \/ \E k \in Credentials : KakaoAPI_init(k)
    \/ \E k \in Credentials : TmapAPI_init(k)
    \/ address_to_coord
    \/ coord_to_address
    \/ geocoding

SpecClients == Init /\ [][NextClients]_vars

\* ================================================================= claims
\* Number of data dispatches among the last n+1 that fall in less than one
\* second: the last n+1 dispatches fit in an interval shorter than 1 s.
LastWithin(n) ==
    /\ Len(dispatchLog) >= n + 1
    /\ dispatchLog[Len(dispatchLog)] - dispatchLog[Len(dispatchLog) - n]
         < TicksPerSec

\* C1: in any interval of length one second the instance dispatches at most
\* max_requests_per_second data requests, i.e. no max_requests_per_second + 1
\* consecutive dispatches lie less than one second apart.
C1_SlidingWindowCeiling ==
    kis = "ready" => ~LastWithin(max_requests_per_second)

\* C2: one call to _make_request dispatches at most two data requests.
C2_AtMostTwoAttempts ==
    op \in KisOps => sent <= 2

\* C3 (as stated): the token-issue POST is sent at most once in the lifetime
\* of the instance, whatever the auth endpoint answers.
C3_AtMostOnePost ==
    authPosts <= 1

\* C3 (amended): once a non-empty token is cached no step sends a
\* token-issue POST, so at most one POST ever succeeds.
C3_NoPostOnceCached ==
    [][Truthy(access_token) => authPosts' = authPosts]_vars

\* A later call that went through _get_access_token with the token cached.
C3_Witness ==
    /\ Truthy(access_token)
    /\ authPosts = 1
    /\ calls >= 2
    /\ (pc = "send" \/ outcome = Return("tok"))

\* C4: a call of _make_request that ended on a failed attempt other than a
\* 429 raises that transport failure itself.
C4_TransportErrorPropagates ==
    (/\ op \in KisOps
     /\ pc = "idle"
     /\ outcome.kind = "raise"
     /\ lastFail.exc \in {"HTTPError", "Timeout", "ConnectionError"})
    => outcome.value = lastFail.exc

\* C10: with a ceiling of 2, the third of three back-to-back dispatches is
\* at least one second after the first.
C10_ThirdAfterOneSecond ==
    (kis = "ready" /\ max_requests_per_second = 2 /\ burst >= 3)
    => ~LastWithin(2)

\* C12: request_count stays between 0 and max_requests_per_second, and a
\* _rate_limit entered with the counter at the ceiling inside the current
\* window sleeps to the end of that window and restarts the window before it
\* counts the request.
C12_CountWithinCeiling ==
    /\ [](request_count \in 0..max_requests_per_second)
    /\ [][(/\ pc = "rate_limit"
           /\ request_count = max_requests_per_second
           /\ clock - last_request_time < TicksPerSec)
          => (/\ clock' >= last_request_time + TicksPerSec
              /\ clock' > clock
              /\ last_request_time' = clock'
              /\ request_count' = 1)]_vars

\* A call that followed a dispatch without idling got through _rate_limit
\* at least one second after that dispatch: it slept there.
C12_Witness ==
    /\ pc = "token"
    /\ depth = 0
    /\ burst >= 1
    /\ request_count = 1
    /\ last_request_time = clock
    /\ clock - dispatchLog[Len(dispatchLog)] >= TicksPerSec

\* C14: once access_token is non-empty no step changes it or sends a token
\* POST, a direct _get_access_token call returns it, and every data request
\* about to be dispatched carries it as its bearer token.
C14_TokenKeptOnceSet ==
    /\ [][Truthy(access_token)
          => (access_token' = access_token /\ authPosts' = authPosts)]_vars
    /\ [](pc = "send" => (Truthy(token) /\ token = access_token))
    /\ []((op \in DirectOps /\ outcome.kind = "return")
            => (Truthy(outcome.value) /\ outcome.value = access_token))

\* A later call retries after a throttled data request and is about to
\* dispatch again with the token cached by an earlier call.
C14_Witness ==
    /\ calls >= 2
    /\ depth >= 1
    /\ lastFail.status = ThrottleStatus
    /\ pc = "send"
    /\ authPosts = 1
    /\ token = "tok"
    /\ access_token = "tok"

\* C25: every network attempt of a data request, the retries after a 429
\* included, follows one _rate_limit acquisition made before the token is
\* obtained; obtaining the token, with or without a POST, leaves the window
\* as it is, so an attempt that fails there has still used its slot.
C25_AcquireThenToken ==
    [][/\ pc' = "send" => pc \in {"token", "send"}
       /\ (op' \in KisOps /\ pc' = "token" /\ pc # "token")
            => /\ pc = "rate_limit"
               /\ request_count' >= 1
               /\ request_count' <= request_count + 1
       /\ pc' = "rate_limit" => pc \in {"idle", "backoff", "rate_limit"}
       /\ pc = "rate_limit" => pc' \in {"rate_limit", "token"}
       /\ pc = "token" => UNCHANGED windowVars
       /\ pc = "send" => UNCHANGED << windowVars, authPosts >>]_vars

\* The first attempt was throttled at the token endpoint, the retry acquired
\* again and failed there too: nothing was sent, the slot stays counted.
C25_Witness ==
    /\ op \in KisOps
    /\ pc = "idle"
    /\ depth >= 1
    /\ sent = 0
    /\ authPosts >= 2
    /\ outcome.kind = "raise"
    /\ request_count >= 1

\* C26: a _get_access_token call whose POST brings no usable token does not
\* return one: it raises, the cache stays empty (None or ""), the cache
\* never holds anything but an issued token, and every call that finds the
\* cache empty sends a new token-issue request.
C26_FailedTokenNotCached ==
    /\ [](Truthy(access_token) => access_token = "tok")
    /\ [][(pc = "token" /\ ~Truthy(access_token))
           => /\ authPosts' = authPosts + 1
              /\ ~Truthy(access_token')
                   => /\ pc' \in {"idle", "backoff"}
                      /\ pc' = "idle" => outcome'.kind = "raise"
                      /\ op \in DirectOps => pc' = "idle"
                      /\ token' = token]_vars

\* A second call found the cache empty after a failed first one, posted
\* again and got a response without a token.
C26_Witness ==
    /\ calls >= 2
    /\ depth = 0
    /\ pc = "idle"
    /\ authPosts >= 2
    /\ lastFail.exc = "none"
    /\ outcome.kind = "raise"
    /\ ~Truthy(access_token)

\* --------------------------------------------------- claims on SpecWindow
\* C13: from every clock value and window state one call of _rate_limit
\* returns without raising after waiting at most one window length (plus
\* what time.sleep oversleeps), with request_count one above the count of
\* the window it ends in.
C13_BoundedWaitCountsOne ==
    [][pc = "rate_limit"
       => (/\ pc' = "token"
           /\ outcome' = Pending
           /\ clock' - clock <= TicksPerSec + MaxOversleep
           /\ request_count' =
                (IF last_request_time' = last_request_time
                    THEN request_count ELSE 0) + 1)]_vars

\* ------------------------------------------------------ claims on SpecOps
Done(o) == request.op = o /\ result.kind # "pending"
RawList == IF response.output2 = Missing THEN << >> ELSE response.output2[1]
DatesOf(points) == [i \in DOMAIN points |-> points[i].date]
RawDate(item) == Get(item, "stck_bsop_date", Text(""))
\* date non-empty and the transmitted closing price a number above zero
RawValid(item) ==
    /\ RawDate(item).form = "word"
    /\ item["stck_clpr"].form \in {"int", "dec"}
    /\ item["stck_clpr"].n > 0

\* C5 (as stated): on a successful provider response with count >= 1,
\* chart_data holds exactly the entries of the raw output2 list with a
\* non-empty date and a closing price above zero, and count = len(chart_data).
C5_AllValidRawEntries ==
    (Done("stock_chart") /\ response.rt_cd = "0" /\ request.count >= 1)
    => /\ result.value.count = Len(result.value.chart_data)
       /\ DatesOf(result.value.chart_data)
            = [i \in DOMAIN SelectSeq(RawList, RawValid) |->
                 RawDate(SelectSeq(RawList, RawValid)[i])]

\* The entries the loop looks at: output2[:count].
Looked ==
    LET n == Len(RawList)
        c == request.count
    IN  SubSeq(RawList, 1,
               IF c >= 0 THEN (IF c < n THEN c ELSE n)
               ELSE (IF n + c > 0 THEN n + c ELSE 0))
Converts(item) == \A i \in DOMAIN ChartFields : ChartConvs(item)[i].ok
Kept(item) ==
    /\ Converts(item)
    /\ RawDate(item).form = "word"
    /\ ChartConvs(item)[CloseIdx].v > 0
Overflows ==
    \E k \in DOMAIN Looked : FirstError(ChartConvs(Looked[k])) = "OverflowError"

\* C5 (amended): on a successful provider response chart_data holds, in
\* order, the converted entries of output2[:count] whose numeric fields all
\* convert, whose date is non-empty and whose close, truncated to an
\* integer, is above zero, and count = len(chart_data); when a numeric field
\* of one of the entries looked at is infinite the record is the error
\* record with count 0 and no chart_data.
C5_ValidAmongLooked ==
    (Done("stock_chart") /\ response.rt_cd = "0")
    => /\ result.kind = "return"
       /\ result.value.count = Len(result.value.chart_data)
       /\ IF Overflows
             THEN /\ result.value.chart_data = << >>
                  /\ result.value.error # Missing
             ELSE /\ result.value.chart_data
                       = [i \in DOMAIN SelectSeq(Looked, Kept) |->
                            data_point(SelectSeq(Looked, Kept)[i])]
                  /\ result.value.error = Missing

\* The series of the spec's example: an entry with an empty date, one with
\* close 0 and a valid one, all within count; one point comes back.
C5_Witness ==
    /\ Done("stock_chart")
    /\ response.rt_cd = "0"
    /\ Len(RawList) = 3
    /\ request.count = 3
    /\ \E i \in 1..3 : RawList[i]["stck_bsop_date"] = Text("")
    /\ \E i \in 1..3 : RawList[i]["stck_clpr"] = Num(0)
    /\ result.value.count = 1
    /\ Len(result.value.chart_data) = 1

\* The message an API error carries for the payload.
CarriedMessage ==
    << ApiErrorPrefix,
       IF response.msg1 = NONE THEN UnknownError ELSE response.msg1 >>

\* C7 (as stated): a payload whose rt_cd is not "0" makes each of the three
\* operations raise an error carrying msg1.
C7_FailureRaisesEverywhere ==
    (result.kind # "pending" /\ response.rt_cd # "0")
    => /\ result.kind = "raise"
       /\ result.value.msg = CarriedMessage

\* C7 (amended): with rt_cd other than "0" stock_price and us_stock_price
\* raise a ValueError whose message is the fixed prefix followed by msg1 (by
\* the fixed default text when msg1 is absent), and stock_chart returns a
\* record with count 0, no chart_data and that message in its error field;
\* with rt_cd "0" no operation reports an API error.
C7_FailureClassified ==
    result.kind # "pending"
    => IF response.rt_cd # "0"
          THEN IF request.op = "stock_chart"
                  THEN /\ result.kind = "return"
                       /\ result.value.count = 0
                       /\ result.value.chart_data = << >>
                       /\ result.value.error = Present(CarriedMessage)
                  ELSE /\ result.kind = "raise"
                       /\ result.value = Exception("ValueError", CarriedMessage)
          ELSE IF result.kind = "raise"
                  THEN result.value.msg[1] # ApiErrorPrefix
                  ELSE request.op = "stock_chart"
                       => \/ result.value.error = Missing
                          \/ result.value.error[1][1] # ApiErrorPrefix

\* The spec's example: status "1" with message "invalid symbol".
C7_Witness ==
    /\ Done("stock_price")
    /\ response.rt_cd = "1"
    /\ response.msg1 = "invalid symbol"
    /\ result.kind = "raise"
    /\ result.value.msg = << ApiErrorPrefix, "invalid symbol" >>

\* points is raw with entries left out: some strictly increasing choice of
\* positions of raw gives points, entry by entry.
InOrderOf(points, raw) ==
    \E f \in [DOMAIN points -> DOMAIN raw] :
       /\ \A i, j \in DOMAIN points : i < j => f[i] < f[j]
       /\ \A i \in DOMAIN points :
            /\ Converts(raw[f[i]])
            /\ points[i] = data_point(raw[f[i]])

\* C19: for a count of zero or more chart_data is no longer than count and
\* its points are entries of the raw output2 list in the order they have
\* there.
C19_AtMostCountInOrder ==
    (Done("stock_chart") /\ request.count >= 0)
    => /\ result.kind = "return"
       /\ Len(result.value.chart_data) <= request.count
       /\ InOrderOf(result.value.chart_data, RawList)

\* A raw list longer than count whose first count entries are two different
\* valid ones, both returned.
C19_Witness ==
    /\ Done("stock_chart")
    /\ request.count = 2
    /\ Len(RawList) > request.count
    /\ Len(result.value.chart_data) = 2
    /\ result.value.chart_data[1].date # result.value.chart_data[2].date

\* The field table of a quote operation and the output object it reads.
FieldsOf(o) == IF o = "stock_price" THEN StockPriceFields ELSE UsStockPriceFields
QuoteData == OutputOf(response, FieldsOf(request.op))
AbsentFields == {i \in DOMAIN FieldsOf(request.op) :
                   QuoteData[FieldsOf(request.op)[i].src].form = "absent"}
\* Every field the output object does carry converts.
PresentConvert ==
    \A i \in DOMAIN FieldsOf(request.op) \ AbsentFields :
       Coerce(FieldsOf(request.op)[i].conv,
              QuoteData[FieldsOf(request.op)[i].src]).ok

\* C20: a quote operation whose provider status is success returns its
\* record whenever the fields present convert, whichever fields are absent,
\* and in it every absent numeric field is zero and every absent string
\* field the empty string.
C20_AbsentFieldsDefault ==
    (/\ request.op \in {"stock_price", "us_stock_price"}
     /\ result.kind # "pending"
     /\ response.rt_cd = "0"
     /\ PresentConvert)
    => /\ result.kind = "return"
       /\ \A i \in AbsentFields :
            result.value[FieldsOf(request.op)[i].dst]
              = IF FieldsOf(request.op)[i].conv = "str" THEN Text("") ELSE 0

\* A quote came back from an output object without its price field.
C20_Witness ==
    /\ Done("stock_price")
    /\ response.rt_cd = "0"
    /\ response.output # Missing
    /\ QuoteData["stck_prpr"].form = "absent"
    /\ result.kind = "return"
    /\ result.value.current_price = 0
    /\ result.value.high_price = 700

\* A transmitted string that is not a number: "" or a word such as "abc".
NonNumeric(v) == v.form \in {"empty", "word"}
NumericFields == {i \in DOMAIN FieldsOf(request.op) :
                    FieldsOf(request.op)[i].conv # "str"}
\* A series entry with a numeric field that is not a number.
HasNonNumeric(item) ==
    \E i \in DOMAIN ChartFields : NonNumeric(item[ChartFields[i].src])

\* C21: a quote operation returns its record with zero in every numeric
\* field whose transmitted string is not numeric, and stock_chart leaves out
\* the entries that have such a field and returns the other valid ones.
C21_NonNumericAsZero ==
    /\ (/\ request.op \in {"stock_price", "us_stock_price"}
         /\ result.kind # "pending"
         /\ response.rt_cd = "0"
         /\ \A i \in DOMAIN FieldsOf(request.op) :
              \/ i \in NumericFields
                 /\ NonNumeric(QuoteData[FieldsOf(request.op)[i].src])
              \/ i \in AbsentFields
              \/ Coerce(FieldsOf(request.op)[i].conv,
                        QuoteData[FieldsOf(request.op)[i].src]).ok)
        => /\ result.kind = "return"
           /\ \A i \in NumericFields :
                NonNumeric(QuoteData[FieldsOf(request.op)[i].src])
                => result.value[FieldsOf(request.op)[i].dst] = 0
    /\ (Done("stock_chart") /\ response.rt_cd = "0" /\ ~Overflows)
        => LET kept == SelectSeq(Looked,
                                 LAMBDA item : Kept(item) /\ ~HasNonNumeric(item))
           IN  result.value.chart_data
                 = [i \in DOMAIN kept |-> data_point(kept[i])]

\* C27: output2 is cut to its first count entries before the validity
\* filter runs: the points returned are the valid entries among the entries
\* looked at, one point per such entry, so a valid entry after position
\* count is never returned, even when fewer than count points were found.
C27_TruncatedBeforeFilter ==
    (Done("stock_chart") /\ response.rt_cd = "0" /\ ~Overflows)
    => LET first == DOMAIN Looked
           data == result.value.chart_data
       IN  /\ Len(data) = Cardinality({i \in first : Kept(RawList[i])})
           /\ Len(data) <= Len(Looked)
           /\ \A k \in DOMAIN data :
                \E i \in first : /\ Kept(RawList[i])
                                 /\ data[k] = data_point(RawList[i])

\* Three raw entries, count 2: the third is valid and differs from the
\* first two, only one of the first two is valid; one point comes back.
C27_Witness ==
    /\ Done("stock_chart")
    /\ response.rt_cd = "0"
    /\ request.count = 2
    /\ Len(RawList) = 3
    /\ Kept(RawList[3])
    /\ RawList[3] # RawList[1]
    /\ RawList[3] # RawList[2]
    /\ ~Kept(RawList[1])
    /\ Kept(RawList[2])
    /\ Len(result.value.chart_data) = 1
    /\ result.value.chart_data[1] = data_point(RawList[2])

\* The keys of the exchange-code table of us_stock_price.
ExchangeKeys == {"NASDAQ", "NYSE", "AMEX"}

\* C24: an exchange that is not a key of the exchange-code table is sent
\* and returned as the caller gave it.
C24_UnknownCodeUnchanged ==
    (Done("us_stock_price") /\ request.exchange \notin ExchangeKeys)
    => /\ params.EXCD = request.exchange
       /\ result.kind = "return"
            => result.value.exchange_code = request.exchange

\* ---------------------------------------------------- claims on SpecRange
\* Days one unit of each period code stands for.
UnitDays(period) ==
    CASE period = "D" -> 1 [] period = "W" -> 7 [] period = "M" -> 30
      [] OTHER -> 365
BufferDays == 10

\* C6: both dates given are sent as they are; with start_date left out the
\* start date sent is the end date sent less count * unitDays + 10 days
\* (stated for the calls during which the date does not change).
C6_StartCountedFromEnd ==
    (/\ Done("stock_chart")
     /\ request.end_date = Omitted => params.FID_INPUT_DATE_2 = strftime(today))
    => /\ (request.start_date # Omitted /\ request.end_date # Omitted)
          => /\ params.FID_INPUT_DATE_1 = request.start_date
             /\ params.FID_INPUT_DATE_2 = request.end_date
       /\ (request.start_date = Omitted /\ request.period \in {"D", "W", "M", "Y"})
          => DayNumber(params.FID_INPUT_DATE_1)
               = DayNumber(params.FID_INPUT_DATE_2)
                 - (request.count * UnitDays(request.period) + BufferDays)

\* C18: with both dates left out the end date sent is a today of the call
\* and the start date sent is count * unitDays + 10 days before that same
\* end date, the calls during which the date changes included.
C18_RangeFromOneToday ==
    (/\ Done("stock_chart")
     /\ request.start_date = Omitted
     /\ request.end_date = Omitted
     /\ request.period \in {"D", "W", "M", "Y"})
    => /\ DayNumber(params.FID_INPUT_DATE_2) \in {today - 1, today}
       /\ DayNumber(params.FID_INPUT_DATE_1)
            = DayNumber(params.FID_INPUT_DATE_2)
              - (request.count * UnitDays(request.period) + BufferDays)

CalendarOK ==
    /\ strftime(DayNumber(20240229) - (30 * 365 + 10)) = 19940226
    /\ strftime(DayNumber(20241231) - 100) = 20240922
    /\ DayNumber(20240229) = 12477
    /\ \A n \in 12000..12800 : DayNumber(strftime(n)) = n

\* -------------------------------------------------- claims on SpecClients
LookupOps == {"address_to_coord", "coord_to_address", "geocoding"}
\* A lookup has received a response.
Answered == contacted # {} /\ response.exc = "none"
\* The candidate collection of the response, empty when it is absent.
Candidates ==
    IF request.op = "geocoding" THEN CoordinateOf(response.body).items
    ELSE IF response.body.documents = Missing THEN << >>
    ELSE response.body.documents[1]
\* The same response with the first candidate alone.
FirstAlone ==
    IF request.op = "geocoding"
       THEN Reply("none", [coordinateInfo |-> Present([coordinate |->
              Present([islist |-> TRUE, items |-> << Candidates[1] >>])])])
       ELSE Reply("none", [documents |-> Present(<< Candidates[1] >>)])
LookupResult(req, reply) ==
    CASE req.op = "address_to_coord" -> address_to_coord_result(req, reply)
      [] req.op = "coord_to_address" -> coord_to_address_result(req, reply)
      [] OTHER -> geocoding_result(req, reply)
Number(v) == IF v.form = "absent" THEN 0 ELSE v.n
NameOf(sub) == IF sub = Missing THEN Text("") ELSE sub[1].f["address_name"]
\* The record carries the values of candidate c.
BuiltFrom(rec, c) ==
    CASE request.op = "address_to_coord" ->
            /\ rec.latitude = Number(c.y)
            /\ rec.longitude = Number(c.x)
            /\ rec.road_address = NameOf(c.road_address)
            /\ rec.jibun_address = NameOf(c.address)
      [] request.op = "coord_to_address" ->
            /\ rec.road_address = NameOf(c.road_address)
            /\ rec.jibun_address = NameOf(c.address)
      [] OTHER ->
            /\ rec.lat = Number(c["lat"])
            /\ rec.lon = Number(c["lon"])
            /\ rec.city_do = c["city_do"]
\* Every field the operation reads of candidate c is of the expected kind.
WellFormed(c) ==
    CASE request.op = "address_to_coord" ->
            /\ c.x.form \in {"absent", "int", "dec"}
            /\ c.y.form \in {"absent", "int", "dec"}
            /\ \A k \in {"road_address", "address"} : c[k] = Missing \/ ~c[k][1].isnull
      [] request.op = "coord_to_address" ->
            \A k \in {"road_address", "address"} : c[k] = Missing \/ ~c[k][1].isnull
      [] OTHER ->
            \A k \in {"lon", "lat"} : c[k].form \in {"absent", "int", "dec"}

C8_WitnessEmpty ==
    /\ Answered
    /\ request.op = "geocoding"
    /\ Candidates = << >>
    /\ result.kind = "raise"

\* C9: a client constructed with a mandatory credential absent or empty is
\* not usable: the constructor raised ValueError and the client has sent no
\* request.
C9_MissingCredentialFails ==
    /\ (kis # "none" /\ (~Truthy(app_key) \/ ~Truthy(app_secret)))
       => /\ kis = "failed"
          /\ outcome = Raise("ValueError")
          /\ authPosts = 0
          /\ dispatchLog = << >>
    /\ (kakao # "none" /\ ~Truthy(api_key))
       => (kakao = "failed" /\ "kakao" \notin contacted)
    /\ (tmap # "none" /\ ~Truthy(tmap_app_key))
       => (tmap = "failed" /\ "tmap" \notin contacted)

\* All three constructors were given a missing credential.
C9_Witness ==
    /\ kis = "failed" /\ app_key = "key" /\ app_secret = ""
    /\ kakao = "failed" /\ api_key = NONE
    /\ tmap = "failed" /\ tmap_app_key = ""

\* ---------------------------------------------------- claims on SpecRetry
\* C11: with only the first token POST answered 429, the first stock_price
\* call recovers through one throttling retry and returns the quote record,
\* the token of the retry is cached, and the later calls return the quote
\* with no further token POST.
C11_RetryRecoversAndCaches ==
    /\ (calls >= 1 /\ pc = "idle")
         => /\ result.kind = "return"
            /\ result.value.current_price = 700
            /\ result.value.symbol = request.symbol
            /\ access_token = "tok"
    /\ (calls = 1 /\ pc = "idle")
         => (depth = 1 /\ sent = 1 /\ authPosts = 2)
    /\ (calls >= 2 /\ pc = "idle") => (depth = 0 /\ sent = 1)
    /\ calls >= 2 => authPosts = 2

\* The second call has returned its quote.
C11_Witness ==
    /\ calls = 2
    /\ pc = "idle"
    /\ result.kind = "return"
    /\ authPosts = 2
    /\ token = "tok"

\* ----------------------------------------------------- claims on SpecFlow
Finished == calls >= 1 /\ pc = "idle" /\ result.kind # "pending"
\* The call failed: in dispatch or authentication (_make_request raised), by
\* the provider status, or in normalization.
FlowFailed ==
    \/ outcome.kind = "raise"
    \/ ProviderFailed(response)
    \/ IF request.op = "stock_chart" THEN Overflows ELSE ~PresentConvert

\* C22: stock_chart always returns, and after a failure of dispatch,
\* authentication, provider status or normalization the record it returns
\* has count 0, no chart_data and an error field; stock_price and
\* us_stock_price raise after the same failures.
C22_ChartReturnsErrorRecord ==
    Finished
    => IF request.op = "stock_chart"
          THEN /\ result.kind = "return"
               /\ FlowFailed
                    => /\ result.value.count = 0
                       /\ result.value.chart_data = << >>
                       /\ result.value.error # Missing
          ELSE FlowFailed => result.kind = "raise"

\* stock_chart has handed back the error record of a call whose token POST
\* failed.
C22_Witness ==
    /\ Finished
    /\ request.op = "stock_chart"
    /\ outcome.kind = "raise"
    /\ sent = 0
    /\ lastFail.exc # "none"
    /\ result.kind = "return"
    /\ result.value.count = 0
    /\ result.value.error # Missing

CallersOf(i) == {t \in Threads : threads[t].self = i}
\* No caller of i is between the two assignments that restart the window.
WindowSettled(i) == \A t \in CallersOf(i) : threads[t].pc # "rl_wake"
WindowKept(i) ==
    /\ instances[i].passed <= instances[i].max_requests_per_second
    /\ WindowSettled(i) => instances[i].request_count = instances[i].passed

\* C15: under every interleaving of the callers of an instance no increment
\* of request_count is lost and no more than max_requests_per_second
\* requests are let through in one window.
C15_NoLostAdmission ==
    \A i \in Insts : WindowKept(i)

\* (the same holds for an instance with one caller)
C15_HoldsForOneCaller ==
    \A i \in Insts : Cardinality(CallersOf(i)) <= 1 => WindowKept(i)

\* C16: on an instance shared by the two callers at most one token POST is
\* sent and the callers that hold a token hold the same one.
C16_OnePostSameToken ==
    \A i \in Insts :
       /\ instances[i].posts <= 1
       /\ \A t, u \in CallersOf(i) :
            (threads[t].token # NONE /\ threads[u].token # NONE)
            => threads[t].token = threads[u].token

\* C17: a step of a thread leaves access_token, request_count and
\* last_request_time of every instance but its own unchanged, and a step of
\* no thread leaves all of them unchanged.
Owned(o) == << o.access_token, o.request_count, o.last_request_time >>
C17_OwnInstanceOnly ==
    [][/\ \A t \in Threads :
            threads'[t] # threads[t]
            => \A i \in Insts \ {threads[t].self} :
                  Owned(instances'[i]) = Owned(instances[i])
       /\ threads' = threads => instances' = instances]_vars

\* The two threads are on different instances; one instance has issued its
\* token, counted and retried, the other is still waiting for its token.
C17_Witness ==
    /\ threads["t1"].self # threads["t2"].self
    /\ \E t, u \in Threads :
         /\ threads[t].depth >= 1
         /\ threads[t].pc = "send"
         /\ Truthy(instances[threads[t].self].access_token)
         /\ threads[u].pc = "auth_wait"
         /\ instances[threads[u].self].access_token = NONE
         /\ instances[threads[u].self].request_count = 1

ThreadsOK ==
    \A t \in Threads : threads[t].calls <= MaxThreadCalls

TypeOK ==
    /\ clock \in Nat
    /\ kis \in {"none", "ready", "failed"}
    /\ request_count \in 0..MaxRps + 1
    /\ pc \in {"idle", "rate_limit", "token", "send", "backoff"}
====
